---------------------------- MODULE Spec2Model ----------------------------
(***************************************************************************)
(* Octostrator's shared-state coordination layer (src/src/state.ts).       *)
(*                                                                         *)
(* Several processes share one JSON state file.  A mutating operation runs *)
(* inside withLock: ensureStateFile, lockSync, readState, the transition,  *)
(* writeState (write a temp file, rename it over the state file), release. *)
(* Read accessors and the polls of waitForTask read the state file without *)
(* the lock.  The steps of a call are: creating the state file, filling   *)
(* it, entering the gate (lockSync, readState, the transition and opening *)
(* the temp file), committing (the temp file's content and the rename),   *)
(* and releasing; the steps of different processes interleave.  A lock    *)
(* goes stale only after its holder was killed: the critical section of a *)
(* live holder is synchronous and far shorter than the staleness bound.   *)
(*                                                                         *)
(* Abstractions: prompt, enlistedAt, createdAt and the timestamp of        *)
(* HaltInfo are written once and never read by the code modelled here, and *)
(* are left out.  JS null is the token NULL.                               *)
(***************************************************************************)
EXTENDS Naturals, Sequences, FiniteSets, TLC

\* ------------------------------------------------------------ bounds ----
NProcs == 2
NWaits == 1
MaxUpdates == 1
MaxCrashes == 1
MaxCalls == 4
MaxLong == 2

\* ------------------------------------------------------------ inputs ----
Procs == 1..NProcs
WaitIds == 1..NWaits
NULL == "<null>"
AgentIds == {"a1", "a2"}
TaskIds == {"t1", "t2"}
Names == {"W1"}
Messages == {"m1"}
MessagesLong == {"m1", "m2"}
Results == {"r1", "r2"}
Reasons == {"", "boom"}
Times == {"T1"}

\* ------------------------------------------------------- entity store ----
DEFAULT_HALT == [halted |-> FALSE, reason |-> NULL]

EmptyState == [agents |-> <<>>, tasks |-> <<>>, halt |-> DEFAULT_HALT]

Put(f, k, v) == [x \in (DOMAIN f) \cup {k} |-> IF x = k THEN v ELSE f[x]]

Del(f, k) == [x \in (DOMAIN f) \ {k} |-> f[x]]

\* JS truthiness of a string-or-null value
Truthy(v) == v /= NULL /\ v /= ""

NewAgent == [name |-> NULL, status |-> "idle", currentTaskId |-> NULL]

NewTask == [agentId |-> NULL, status |-> "pending", updates |-> <<>>,
            result |-> NULL, completedAt |-> NULL]

\* The values generateId can return: Math.random() gives no uniqueness.
generateId(ids) == ids

\* ----------------------------------------- transitions (the fn bodies) ----
\* Each gives [st: the state object after the body ran, write: whether
\* writeState was called, ret: the value returned].
registerAgent(s, id) ==
  [st |-> [s EXCEPT !.agents = Put(s.agents, id, NewAgent)],
   write |-> TRUE, ret |-> id]

createTask(s, id) ==
  [st |-> [s EXCEPT !.tasks = Put(s.tasks, id, NewTask)],
   write |-> TRUE, ret |-> id]

\* An engine that refuses to assign while halt is set.
assignTaskToAgentUnlessHalted(s, t, a, n) ==
  IF t \notin DOMAIN s.tasks \/ a \notin DOMAIN s.agents
     \/ s.agents[a].status /= "idle" \/ s.halt.halted
  THEN [st |-> s, write |-> FALSE, ret |-> "false"]
  ELSE [st |-> [s EXCEPT !.tasks[t].agentId = a,
                         !.tasks[t].status = "in_progress",
                         !.agents[a].status = "busy",
                         !.agents[a].currentTaskId = t,
                         !.agents[a].name = n],
        write |-> TRUE, ret |-> "true"]

\* An assignment that leaves the agent's name as it was.
assignTaskToAgentNoName(s, t, a, n) ==
  IF t \notin DOMAIN s.tasks \/ a \notin DOMAIN s.agents
     \/ s.agents[a].status /= "idle"
  THEN [st |-> s, write |-> FALSE, ret |-> "false"]
  ELSE [st |-> [s EXCEPT !.tasks[t].agentId = a,
                         !.tasks[t].status = "in_progress",
                         !.agents[a].status = "busy",
                         !.agents[a].currentTaskId = t],
        write |-> TRUE, ret |-> "true"]

assignTaskToAgent(s, t, a, n) ==
  IF t \notin DOMAIN s.tasks \/ a \notin DOMAIN s.agents
     \/ s.agents[a].status /= "idle"
  THEN [st |-> s, write |-> FALSE, ret |-> "false"]
  ELSE [st |-> [s EXCEPT !.tasks[t].agentId = a,
                         !.tasks[t].status = "in_progress",
                         !.agents[a].status = "busy",
                         !.agents[a].currentTaskId = t,
                         !.agents[a].name = n],
        write |-> TRUE, ret |-> "true"]

\* An update that puts the new entry in front.
updateTaskStatusInFront(s, t, m, now) ==
  IF t \notin DOMAIN s.tasks \/ s.tasks[t].status /= "in_progress"
  THEN [st |-> s, write |-> FALSE, ret |-> "false"]
  ELSE [st |-> [s EXCEPT !.tasks[t].updates =
                   <<[timestamp |-> now, message |-> m]>> \o @],
        write |-> TRUE, ret |-> "true"]

\* An update that keeps only the new entry.
updateTaskStatusOnlyLast(s, t, m, now) ==
  IF t \notin DOMAIN s.tasks \/ s.tasks[t].status /= "in_progress"
  THEN [st |-> s, write |-> FALSE, ret |-> "false"]
  ELSE [st |-> [s EXCEPT !.tasks[t].updates =
                   <<[timestamp |-> now, message |-> m]>>],
        write |-> TRUE, ret |-> "true"]

\* An update that reads the status of a task it did not look for: on a
\* missing task the body throws a TypeError.
updateTaskStatusNoLookup(s, t, m, now) ==
  IF t \notin DOMAIN s.tasks
  THEN [st |-> s, write |-> FALSE, ret |-> "TypeError"]
  ELSE IF s.tasks[t].status /= "in_progress"
  THEN [st |-> s, write |-> FALSE, ret |-> "false"]
  ELSE [st |-> [s EXCEPT !.tasks[t].updates =
                   Append(@, [timestamp |-> now, message |-> m])],
        write |-> TRUE, ret |-> "true"]

updateTaskStatus(s, t, m, now) ==
  IF t \notin DOMAIN s.tasks \/ s.tasks[t].status /= "in_progress"
  THEN [st |-> s, write |-> FALSE, ret |-> "false"]
  ELSE [st |-> [s EXCEPT !.tasks[t].updates =
                   Append(@, [timestamp |-> now, message |-> m])],
        write |-> TRUE, ret |-> "true"]

\* A completion that leaves the agent busy.
completeTaskKeepBusy(s, t, r, now) ==
  IF t \notin DOMAIN s.tasks \/ s.tasks[t].status /= "in_progress"
  THEN [st |-> s, write |-> FALSE, ret |-> "false"]
  ELSE [st |-> [s EXCEPT !.tasks[t].status = "completed",
                         !.tasks[t].result = r,
                         !.tasks[t].completedAt = now],
        write |-> TRUE, ret |-> "true"]

\* A completion that only wants the task to have been assigned.
completeTaskAgain(s, t, r, now) ==
  IF t \notin DOMAIN s.tasks \/ s.tasks[t].status = "pending"
  THEN [st |-> s, write |-> FALSE, ret |-> "false"]
  ELSE LET s1 == [s EXCEPT !.tasks[t].status = "completed",
                           !.tasks[t].result = r,
                           !.tasks[t].completedAt = now]
           a == s.tasks[t].agentId
           s2 == IF Truthy(a) /\ a \in DOMAIN s1.agents
                 THEN [s1 EXCEPT !.agents[a].status = "idle",
                                 !.agents[a].currentTaskId = NULL]
                 ELSE s1
       IN [st |-> s2, write |-> TRUE, ret |-> "true"]

\* A completion that leaves the agent its currentTaskId.
completeTaskKeepCurrent(s, t, r, now) ==
  IF t \notin DOMAIN s.tasks \/ s.tasks[t].status /= "in_progress"
  THEN [st |-> s, write |-> FALSE, ret |-> "false"]
  ELSE LET s1 == [s EXCEPT !.tasks[t].status = "completed",
                           !.tasks[t].result = r,
                           !.tasks[t].completedAt = now]
           a == s.tasks[t].agentId
           s2 == IF Truthy(a) /\ a \in DOMAIN s1.agents
                 THEN [s1 EXCEPT !.agents[a].status = "idle"]
                 ELSE s1
       IN [st |-> s2, write |-> TRUE, ret |-> "true"]

completeTask(s, t, r, now) ==
  IF t \notin DOMAIN s.tasks \/ s.tasks[t].status /= "in_progress"
  THEN [st |-> s, write |-> FALSE, ret |-> "false"]
  ELSE LET s1 == [s EXCEPT !.tasks[t].status = "completed",
                           !.tasks[t].result = r,
                           !.tasks[t].completedAt = now]
           a == s.tasks[t].agentId
           s2 == IF Truthy(a) /\ a \in DOMAIN s1.agents
                 THEN [s1 EXCEPT !.agents[a].status = "idle",
                                 !.agents[a].currentTaskId = NULL]
                 ELSE s1
       IN [st |-> s2, write |-> TRUE, ret |-> "true"]

\* A removal that hands the agent's task back as pending.
removeAgentFreeTask(s, a) ==
  IF a \notin DOMAIN s.agents
  THEN [st |-> s, write |-> FALSE, ret |-> "false"]
  ELSE [st |-> [s EXCEPT !.agents = Del(s.agents, a),
                         !.tasks = [t \in DOMAIN s.tasks |->
                                      IF s.tasks[t].agentId = a
                                      THEN [s.tasks[t] EXCEPT !.agentId = NULL,
                                                              !.status = "pending"]
                                      ELSE s.tasks[t]]],
        write |-> TRUE, ret |-> "true"]

removeAgent(s, a) ==
  IF a \notin DOMAIN s.agents
  THEN [st |-> s, write |-> FALSE, ret |-> "false"]
  ELSE [st |-> [s EXCEPT !.agents = Del(s.agents, a)],
        write |-> TRUE, ret |-> "true"]

\* A reset that keeps the halt that is set.
clearStateKeepHalt(s) ==
  [st |-> [EmptyState EXCEPT !.halt = s.halt], write |-> TRUE, ret |-> "void"]

clearState(s) == [st |-> EmptyState, write |-> TRUE, ret |-> "void"]

\* A halt that keeps the reason of a halt that is already set.
triggerHaltKeepFirst(s, reason) ==
  [st |-> IF s.halt.halted THEN s
          ELSE [s EXCEPT !.halt = [halted |-> TRUE, reason |-> reason]],
   write |-> TRUE, ret |-> "void"]

triggerHalt(s, reason) ==
  [st |-> [s EXCEPT !.halt = [halted |-> TRUE, reason |-> reason]],
   write |-> TRUE, ret |-> "void"]

clearHalt(s) ==
  [st |-> [s EXCEPT !.halt = DEFAULT_HALT], write |-> TRUE, ret |-> "void"]

\* One dispatch for the fn passed to withLock by each mutating operation.
Apply(o, s, now) ==
  CASE o.name = "registerAgent" -> registerAgent(s, o.id)
    [] o.name = "createTask" -> createTask(s, o.id)
    [] o.name = "assignTaskToAgent" -> assignTaskToAgent(s, o.task, o.agent, o.str)
    [] o.name = "updateTaskStatus" -> updateTaskStatus(s, o.task, o.str, now)
    [] o.name = "completeTask" -> completeTask(s, o.task, o.str, now)
    [] o.name = "removeAgent" -> removeAgent(s, o.agent)
    [] o.name = "clearState" -> clearState(s)
    [] o.name = "triggerHalt" -> triggerHalt(s, o.str)
    [] o.name = "clearHalt" -> clearHalt(s)

\* A call: the operation, its arguments, and for registerAgent and
\* createTask the id that generateId is going to give it.
Op(n, t, a, x) == [name |-> n, task |-> t, agent |-> a, str |-> x, id |-> NULL]

NoOp == Op("none", NULL, NULL, NULL)

Ops ==
  {[Op("registerAgent", NULL, NULL, NULL) EXCEPT !.id = i] : i \in generateId(AgentIds)}
  \cup {[Op("createTask", NULL, NULL, NULL) EXCEPT !.id = i] : i \in generateId(TaskIds)}
  \cup {Op("clearState", NULL, NULL, NULL), Op("clearHalt", NULL, NULL, NULL)}
  \cup {Op("assignTaskToAgent", t, a, n) : t \in TaskIds, a \in AgentIds, n \in Names}
  \cup {Op("updateTaskStatus", t, NULL, m) : t \in TaskIds, m \in Messages}
  \cup {Op("completeTask", t, NULL, r) : t \in TaskIds, r \in Results}
  \cup {Op("removeAgent", NULL, a, NULL) : a \in AgentIds}
  \cup {Op("triggerHalt", NULL, NULL, r) : r \in Reasons}

\* ------------------------------------------------------------- state ----
VARIABLES
  file,        \* the state file: absent, being created, or a JSON document
  tmp,         \* the temp file of writeState
  lock,        \* the lock directory of proper-lockfile
  pc,          \* where each process is in its current call
  op,          \* the call each process is in
  snap,        \* the state object the call holds in memory
  ret,         \* the value the call returns
  quiet,       \* history: the last call was assignTaskToAgent and no other
               \* kind of operation has committed since it began
  wait,        \* the waitForTask loops
  lastCommit,  \* history: the state handed to the last completed writeState
  crashes,     \* history: how many processes were killed
  calls,       \* history: how many calls were made
  handler      \* where each process is in the tool handler it runs

vars == <<file, tmp, lock, pc, op, snap, ret, quiet, wait, lastCommit, crashes, calls, handler>>

\* JSON values: the literal null, a string, a number.
JsonNull == <<"literal", "null">>

JsonString(v) == <<"string", v>>

JsonNumber(v) == <<"number", v>>

\* A string-or-null and a number-or-null field, as JSON.stringify writes it
\* and as JSON.parse reads it back.
ToJson(v, kind) == IF v = NULL THEN JsonNull ELSE <<kind, v>>

FromJson(j) == IF j = JsonNull THEN NULL ELSE j[2]

\* JSON.stringify(state, null, 2): the document of a state object.
stringify(s) ==
  [agents |-> [a \in DOMAIN s.agents |->
                 [name |-> ToJson(s.agents[a].name, "string"),
                  status |-> JsonString(s.agents[a].status),
                  currentTaskId |-> ToJson(s.agents[a].currentTaskId, "string")]],
   tasks |-> [t \in DOMAIN s.tasks |->
                [agentId |-> ToJson(s.tasks[t].agentId, "string"),
                 status |-> JsonString(s.tasks[t].status),
                 updates |-> [i \in 1..Len(s.tasks[t].updates) |->
                                [timestamp |-> JsonNumber(s.tasks[t].updates[i].timestamp),
                                 message |-> JsonString(s.tasks[t].updates[i].message)]],
                 result |-> ToJson(s.tasks[t].result, "string"),
                 completedAt |-> ToJson(s.tasks[t].completedAt, "number")]],
   halt |-> [halted |-> s.halt.halted,
             reason |-> ToJson(s.halt.reason, "string")]]

\* A parse that reads a task's agentId under the key result, and its result
\* under the key agentId.
parseWrongKeys(d) ==
  [agents |-> [a \in DOMAIN d.agents |->
                 [name |-> FromJson(d.agents[a].name),
                  status |-> FromJson(d.agents[a].status),
                  currentTaskId |-> FromJson(d.agents[a].currentTaskId)]],
   tasks |-> [t \in DOMAIN d.tasks |->
                [agentId |-> FromJson(d.tasks[t].result),
                 status |-> FromJson(d.tasks[t].status),
                 updates |-> [i \in 1..Len(d.tasks[t].updates) |->
                                [timestamp |-> FromJson(d.tasks[t].updates[i].timestamp),
                                 message |-> FromJson(d.tasks[t].updates[i].message)]],
                 result |-> FromJson(d.tasks[t].agentId),
                 completedAt |-> FromJson(d.tasks[t].completedAt)]],
   halt |-> [halted |-> d.halt.halted,
             reason |-> FromJson(d.halt.reason)]]

\* JSON.parse(data): the state object of a document.
parse(d) ==
  [agents |-> [a \in DOMAIN d.agents |->
                 [name |-> FromJson(d.agents[a].name),
                  status |-> FromJson(d.agents[a].status),
                  currentTaskId |-> FromJson(d.agents[a].currentTaskId)]],
   tasks |-> [t \in DOMAIN d.tasks |->
                [agentId |-> FromJson(d.tasks[t].agentId),
                 status |-> FromJson(d.tasks[t].status),
                 updates |-> [i \in 1..Len(d.tasks[t].updates) |->
                                [timestamp |-> FromJson(d.tasks[t].updates[i].timestamp),
                                 message |-> FromJson(d.tasks[t].updates[i].message)]],
                 result |-> FromJson(d.tasks[t].result),
                 completedAt |-> FromJson(d.tasks[t].completedAt)]],
   halt |-> [halted |-> d.halt.halted,
             reason |-> FromJson(d.halt.reason)]]

\* No file, and a file that was created and holds no document yet.
Absent == [k |-> "absent", doc |-> stringify(EmptyState)]

Partial == [k |-> "partial", doc |-> stringify(EmptyState)]

Json(s) == [k |-> "json", doc |-> stringify(s)]

FreeLock == [st |-> "free", by |-> {}]

NoResult == [type |-> "none", reason |-> NULL, task |-> NULL]

\* slept: the loop has been through an iteration that resolved nothing.
\* No tool handler is running.
NoHandler == [pc |-> "idle", avail |-> {}, name |-> NULL, agent |-> NULL, task |-> NULL]

FreeWait == [st |-> "free", agent |-> NULL, result |-> NoResult, slept |-> FALSE]

Init ==
  /\ file = Absent
  /\ tmp = Absent
  /\ lock = FreeLock
  /\ pc = [p \in Procs |-> "idle"]
  /\ op = [p \in Procs |-> NoOp]
  /\ snap = [p \in Procs |-> EmptyState]
  /\ ret = [p \in Procs |-> "none"]
  /\ quiet = [p \in Procs |-> FALSE]
  /\ wait = [w \in WaitIds |-> FreeWait]
  /\ lastCommit = Absent
  /\ crashes = 0
  /\ calls = 0
  /\ handler = [p \in Procs |-> NoHandler]

\* A load that turns a file it cannot parse into a halt.
readStateHalts(f) ==
  IF f.k = "json" THEN parse(f.doc)
  ELSE [EmptyState EXCEPT !.halt = [halted |-> TRUE, reason |-> "parse error"]]

\* readState: JSON.parse of the file, the default snapshot when that throws.
readState(f) == IF f.k = "json" THEN parse(f.doc) ELSE EmptyState


Store == readState(file)

\* -------------------------------------------------------- the gate ----
\* lockfile.lockSync(STATE_FILE, {stale: 10000}); the sync API takes no
\* retries.  mkdir of the lock directory: when the directory exists and is
\* not stale the call throws ELOCKED, when it is stale it is taken over.
\* A gate that takes the lock directory whatever its state.
lockSyncNoCheck(l, p) == [ok |-> TRUE, lock |-> [st |-> "held", by |-> {p}]]

lockSync(l, p) ==
  IF l.st \in {"free", "stale"}
  THEN [ok |-> TRUE, lock |-> [st |-> "held", by |-> {p}]]
  ELSE [ok |-> FALSE, lock |-> l]

\* release(): the lock directory is removed.
release(l, p) == FreeLock

IsAssign(o) == o.name = "assignTaskToAgent"

InCall(p) == pc[p] /= "idle"

\* The longest updates list in the store.
MaxLen(s) ==
  IF DOMAIN s.tasks = {} THEN 0
  ELSE CHOOSE n \in 0..MaxUpdates :
         /\ \E t \in DOMAIN s.tasks : Len(s.tasks[t].updates) = n
         /\ \A t \in DOMAIN s.tasks : Len(s.tasks[t].updates) <= n

UpdatesInFlight ==
  Cardinality({p \in Procs : InCall(p) /\ op[p].name = "updateTaskStatus"})

\* History bookkeeping: a call that has ended keeps its record (op, ret)
\* only while it is quiet.
Remember(pcs, ops, rets, quiets) ==
  /\ pc' = pcs
  /\ quiet' = quiets
  /\ op' = [q \in Procs |-> IF pcs[q] = "idle" /\ ~quiets[q] THEN NoOp ELSE ops[q]]
  /\ ret' = [q \in Procs |-> IF pcs[q] = "idle" /\ ~quiets[q] THEN "none" ELSE rets[q]]

\* writeState, in its file-system steps.  Each gives the two files.
\* writeFileSync(tempFile) first truncates the temp file ...
\* A writeState that opens the state file itself, with no temp file.
writeBeginInPlace(f, t) == [file |-> Partial, tmp |-> t]

writeBegin(f, t) == [file |-> f, tmp |-> Partial]

\* ... and then has written the whole document,
writeEnd(f, t, s) == [file |-> f, tmp |-> Json(s)]

\* and renameSync puts the temp file in the place of the state file.
rename(f, t) == [file |-> t, tmp |-> Absent]

\* withLock from lockSync on, with the state file in place: lockSync, then
\* fn: readState, the body, and the start of writeState.  No step of
\* another process can come between these and change what they do.
Enter(p, o) ==
  LET l == lockSync(lock, p)
      quiets == [quiet EXCEPT ![p] = IsAssign(o)]
      ops == [op EXCEPT ![p] = o]
  IN IF ~l.ok
     THEN /\ Remember([pc EXCEPT ![p] = "idle"], ops,
                      [ret EXCEPT ![p] = "ELOCKED"], quiets)
          /\ UNCHANGED <<file, tmp, lock, snap>>
     ELSE \E now \in Times :
            LET r == Apply(o, readState(file), now)
                w == writeBegin(file, tmp)
            IN /\ lock' = l.lock
               /\ Remember([pc EXCEPT ![p] = IF r.write THEN "writing" ELSE "unlock"],
                           ops, [ret EXCEPT ![p] = r.ret], quiets)
               /\ IF r.write
                  THEN /\ file' = w.file
                       /\ tmp' = w.tmp
                       /\ snap' = [snap EXCEPT ![p] = r.st]
                  ELSE UNCHANGED <<file, tmp, snap>>

\* The updates lists stay within the bound.
Room(o) == o.name = "updateTaskStatus" => MaxLen(Store) + UpdatesInFlight < MaxUpdates

\* A process calls a mutating operation.  When the state file is missing,
\* ensureStateFile creates it first: writeFileSync with flag wx creates the
\* file (empty) and then writes the default document into it.
Call(p, o) ==
  /\ pc[p] = "idle"
  /\ IF file.k = "absent"
     THEN /\ file' = Partial
          /\ Remember([pc EXCEPT ![p] = "ensuring"], [op EXCEPT ![p] = o],
                      [ret EXCEPT ![p] = "none"], [quiet EXCEPT ![p] = IsAssign(o)])
          /\ UNCHANGED <<tmp, lock, snap>>
     ELSE Enter(p, o)
  /\ UNCHANGED <<wait, lastCommit, crashes>>

\* The write of ensureStateFile lands in the file that was created, unless
\* a rename has put another file in its place meanwhile.
ensureFill(f) == IF f.k = "partial" THEN Json(EmptyState) ELSE f

EnsureFill(p) ==
  /\ pc[p] = "ensuring"
  /\ file' = ensureFill(file)
  /\ pc' = [pc EXCEPT ![p] = "start"]
  /\ UNCHANGED <<tmp, lock, op, snap, ret, quiet, wait, lastCommit, crashes, calls, handler>>

\* The call goes on after ensureStateFile created the file.
Start(p) ==
  /\ pc[p] = "start"
  /\ Enter(p, op[p])
  /\ UNCHANGED <<wait, lastCommit, crashes, calls, handler>>

\* The rest of writeState: the temp file is written, and renamed.
Commit(p) ==
  /\ pc[p] = "writing"
  /\ LET w1 == writeEnd(file, tmp, snap[p])
         w2 == rename(w1.file, w1.tmp)
     IN file' = w2.file /\ tmp' = w2.tmp
  /\ lastCommit' = Json(snap[p])
  /\ snap' = [snap EXCEPT ![p] = EmptyState]
  /\ Remember([pc EXCEPT ![p] = "unlock"], op, ret,
              IF IsAssign(op[p]) THEN quiet ELSE [q \in Procs |-> FALSE])
  /\ UNCHANGED <<lock, wait, crashes, calls, handler>>

\* finally { release() } and the return to the caller.
Release(p) ==
  /\ pc[p] = "unlock"
  /\ lock' = release(lock, p)
  /\ Remember([pc EXCEPT ![p] = "idle"], op, ret, quiet)
  /\ UNCHANGED <<file, tmp, snap, wait, lastCommit, crashes, calls, handler>>

\* The process is killed inside a call (and started again).  Its lock
\* directory stays behind.
Crash(p) ==
  /\ InCall(p)
  /\ crashes < MaxCrashes
  /\ crashes' = crashes + 1
  /\ lock' = IF lock.st = "held" /\ p \in lock.by
             THEN [st |-> "orphan", by |-> {}] ELSE lock
  /\ snap' = [snap EXCEPT ![p] = EmptyState]
  /\ Remember([pc EXCEPT ![p] = "idle"], op, ret, [quiet EXCEPT ![p] = FALSE])
  /\ UNCHANGED <<file, tmp, wait, lastCommit, calls, handler>>

\* LOCK_OPTIONS_SYNC.stale: ten seconds after its holder died, the lock is
\* stale.  A live holder is inside synchronous code that ends long before.
LockGoesStale ==
  /\ lock.st = "orphan"
  /\ lock' = [lock EXCEPT !.st = "stale"]
  /\ UNCHANGED <<file, tmp, pc, op, snap, ret, quiet, wait, lastCommit, crashes, calls, handler>>

\* ------------------------------------------------- the wait protocol ----
\* One iteration of waitForTask on the state it read: the result it
\* returns, or NoResult when it goes to sleep.
\* An iteration that looks for the agent before it looks at halt.
waitForTaskAgentFirst(s, a) ==
  IF a \notin DOMAIN s.agents
  THEN [type |-> "removed", reason |-> NULL, task |-> NULL]
  ELSE IF s.halt.halted
  THEN [type |-> "halted",
        reason |-> IF Truthy(s.halt.reason) THEN s.halt.reason ELSE "Unknown error",
        task |-> NULL]
  ELSE IF /\ s.agents[a].status = "busy"
          /\ Truthy(s.agents[a].currentTaskId)
          /\ s.agents[a].currentTaskId \in DOMAIN s.tasks
          /\ s.tasks[s.agents[a].currentTaskId].status = "in_progress"
  THEN [type |-> "task", reason |-> NULL, task |-> s.agents[a].currentTaskId]
  ELSE NoResult

\* An iteration that never finds the assignment.
waitForTaskNoTask(s, a) ==
  IF s.halt.halted
  THEN [type |-> "halted",
        reason |-> IF Truthy(s.halt.reason) THEN s.halt.reason ELSE "Unknown error",
        task |-> NULL]
  ELSE IF a \notin DOMAIN s.agents
  THEN [type |-> "removed", reason |-> NULL, task |-> NULL]
  ELSE NoResult

\* An iteration that does not look whether the agent is still there.
waitForTaskNoRemoved(s, a) ==
  IF s.halt.halted
  THEN [type |-> "halted",
        reason |-> IF Truthy(s.halt.reason) THEN s.halt.reason ELSE "Unknown error",
        task |-> NULL]
  ELSE IF /\ a \in DOMAIN s.agents
          /\ s.agents[a].status = "busy"
          /\ Truthy(s.agents[a].currentTaskId)
          /\ s.agents[a].currentTaskId \in DOMAIN s.tasks
          /\ s.tasks[s.agents[a].currentTaskId].status = "in_progress"
  THEN [type |-> "task", reason |-> NULL, task |-> s.agents[a].currentTaskId]
  ELSE NoResult

\* An iteration that gives up, as if the agent were gone, when it finds
\* nothing to return.
waitForTaskGivesUp(s, a) ==
  IF s.halt.halted
  THEN [type |-> "halted",
        reason |-> IF Truthy(s.halt.reason) THEN s.halt.reason ELSE "Unknown error",
        task |-> NULL]
  ELSE IF a \notin DOMAIN s.agents
  THEN [type |-> "removed", reason |-> NULL, task |-> NULL]
  ELSE IF /\ s.agents[a].status = "busy"
          /\ Truthy(s.agents[a].currentTaskId)
          /\ s.agents[a].currentTaskId \in DOMAIN s.tasks
          /\ s.tasks[s.agents[a].currentTaskId].status = "in_progress"
  THEN [type |-> "task", reason |-> NULL, task |-> s.agents[a].currentTaskId]
  ELSE [type |-> "removed", reason |-> NULL, task |-> NULL]

\* An iteration that looks for the assignment before it looks at halt.
waitForTaskTaskFirst(s, a) ==
  IF /\ a \in DOMAIN s.agents
     /\ s.agents[a].status = "busy"
     /\ Truthy(s.agents[a].currentTaskId)
     /\ s.agents[a].currentTaskId \in DOMAIN s.tasks
     /\ s.tasks[s.agents[a].currentTaskId].status = "in_progress"
  THEN [type |-> "task", reason |-> NULL, task |-> s.agents[a].currentTaskId]
  ELSE IF s.halt.halted
  THEN [type |-> "halted",
        reason |-> IF Truthy(s.halt.reason) THEN s.halt.reason ELSE "Unknown error",
        task |-> NULL]
  ELSE IF a \notin DOMAIN s.agents
  THEN [type |-> "removed", reason |-> NULL, task |-> NULL]
  ELSE NoResult

waitForTask(s, a) ==
  IF s.halt.halted
  THEN [type |-> "halted",
        reason |-> IF Truthy(s.halt.reason) THEN s.halt.reason ELSE "Unknown error",
        task |-> NULL]
  ELSE IF a \notin DOMAIN s.agents
  THEN [type |-> "removed", reason |-> NULL, task |-> NULL]
  ELSE IF /\ s.agents[a].status = "busy"
          /\ Truthy(s.agents[a].currentTaskId)
          /\ s.agents[a].currentTaskId \in DOMAIN s.tasks
          /\ s.tasks[s.agents[a].currentTaskId].status = "in_progress"
  THEN [type |-> "task", reason |-> NULL, task |-> s.agents[a].currentTaskId]
  ELSE NoResult

WaitStart(w, a) ==
  /\ wait[w].st = "free"
  /\ wait' = [wait EXCEPT ![w] = [st |-> "inflight", agent |-> a,
                                   result |-> NoResult, slept |-> FALSE]]
  /\ UNCHANGED <<file, tmp, lock, pc, op, snap, ret, quiet, lastCommit, crashes, calls, handler>>

\* readState's ensureStateFile, when the poll finds no file.
WaitEnsureCreate(w) ==
  /\ wait[w].st = "inflight"
  /\ file.k = "absent"
  /\ file' = Partial
  /\ wait' = [wait EXCEPT ![w].st = "ensuring"]
  /\ UNCHANGED <<tmp, lock, pc, op, snap, ret, quiet, lastCommit, crashes, calls, handler>>

WaitEnsureFill(w) ==
  /\ wait[w].st = "ensuring"
  /\ file' = ensureFill(file)
  /\ wait' = [wait EXCEPT ![w].st = "inflight"]
  /\ UNCHANGED <<tmp, lock, pc, op, snap, ret, quiet, lastCommit, crashes, calls, handler>>

\* readFileSync and the checks of one iteration, and the sleep after them.
WaitPoll(w) ==
  /\ wait[w].st = "inflight"
  /\ file.k /= "absent"
  /\ LET r == waitForTask(readState(file), wait[w].agent)
     IN wait' = [wait EXCEPT ![w] = IF r = NoResult
                                    THEN [@ EXCEPT !.slept = TRUE]
                                    ELSE [@ EXCEPT !.st = "done", !.result = r]]
  /\ UNCHANGED <<file, tmp, lock, pc, op, snap, ret, quiet, lastCommit, crashes, calls, handler>>

\* The caller takes the result.
WaitReturn(w) ==
  /\ wait[w].st = "done"
  /\ wait' = [wait EXCEPT ![w] = FreeWait]
  /\ UNCHANGED <<file, tmp, lock, pc, op, snap, ret, quiet, lastCommit, crashes, calls, handler>>

\* ----------------------------------------------------- specifications ----
\* The calls the racing processes make: every operation, on one agent.
OpsRace ==
  {o \in Ops : /\ o.agent \in {NULL, "a1"}
               /\ o.id /= "a2"
               /\ o.name \in {"updateTaskStatus", "completeTask"} => o.task = "t1"
               /\ o.str \in {NULL, "W1", "m1", "r1", "boom"}}

\* Spec: several processes race through the gate, and may be killed.
RaceCall(p, o) ==
  /\ pc[p] = "idle"
  /\ calls < MaxCalls
  /\ calls' = calls + 1
  /\ Room(o)
  /\ Call(p, o)
  /\ UNCHANGED handler

Next ==
  \/ \E p \in Procs, o \in OpsRace : RaceCall(p, o)
  \/ \E p \in Procs : EnsureFill(p)
  \/ \E p \in Procs : Start(p)
  \/ \E p \in Procs : Commit(p)
  \/ \E p \in Procs : Release(p)
  \/ \E p \in Procs : Crash(p)
  \/ LockGoesStale

Spec == Init /\ [][Next]_vars

\* writeState throws inside fn (writeFileSync or renameSync fails, on a
\* full disk for one): the temp file is left as it is or written, the
\* state file is not replaced, and the finally of withLock runs.
\* A withLock that releases after fn only when fn returns.
WriteFailsNoFinally(p) ==
  /\ pc[p] = "writing"
  /\ \E t \in {tmp, Json(snap[p])} : tmp' = t
  /\ snap' = [snap EXCEPT ![p] = EmptyState]
  /\ Remember([pc EXCEPT ![p] = "idle"], op, [ret EXCEPT ![p] = "EIO"], quiet)
  /\ UNCHANGED <<file, lock, wait, lastCommit, crashes, calls, handler>>

WriteFails(p) ==
  /\ pc[p] = "writing"
  /\ \E t \in {tmp, Json(snap[p])} : tmp' = t
  /\ snap' = [snap EXCEPT ![p] = EmptyState]
  /\ Remember([pc EXCEPT ![p] = "unlock"], op, [ret EXCEPT ![p] = "EIO"], quiet)
  /\ UNCHANGED <<file, lock, wait, lastCommit, crashes, calls, handler>>

\* SpecGate: the racing processes of Spec, with writes that fail.
NextGate ==
  \/ Next
  \/ \E p \in Procs : WriteFails(p)

SpecGate == Init /\ [][NextGate]_vars

\* generateId gives an id that is not in the store.
Fresh(o) ==
  CASE o.name = "registerAgent" -> o.id \notin DOMAIN Store.agents
    [] o.name = "createTask" -> o.id \notin DOMAIN Store.tasks
    [] OTHER -> TRUE

\* SpecSeq: one process calls the operations one after the other, any
\* operation with any arguments, and generateId never repeats an id.
SeqCall(o) ==
  /\ pc[1] = "idle"
  /\ Fresh(o)
  /\ Room(o)
  /\ Call(1, o)
  /\ UNCHANGED <<calls, handler>>

NextSeq ==
  \/ \E o \in Ops : SeqCall(o)
  \/ EnsureFill(1)
  \/ Start(1)
  \/ Commit(1)
  \/ Release(1)

SpecSeq == Init /\ [][NextSeq]_vars

\* SpecUpd: one process works on one agent and one task, with longer
\* lists of updates.
OpsUpd ==
  {o \in Ops : o.task \in {NULL, "t1"} /\ o.agent \in {NULL, "a1"}
                /\ o.id \in {NULL, "a1", "t1"}}
  \cup {Op("updateTaskStatus", "t1", NULL, m) : m \in MessagesLong}

UpdCall(o) ==
  /\ pc[1] = "idle"
  /\ Fresh(o)
  /\ o.name = "updateTaskStatus" =>
        \A t \in DOMAIN Store.tasks : Len(Store.tasks[t].updates) < MaxLong
  /\ Call(1, o)
  /\ UNCHANGED <<calls, handler>>

NextUpd ==
  \/ \E o \in OpsUpd : UpdCall(o)
  \/ EnsureFill(1)
  \/ Start(1)
  \/ Commit(1)
  \/ Release(1)

SpecUpd == Init /\ [][NextUpd]_vars

\* SpecWait: waitForTask loops poll while one process calls operations
\* and may be killed.
OpsWait ==
  {o \in Ops : /\ o.name /= "updateTaskStatus"
               /\ o.agent \in {NULL, "a1"} /\ o.id /= "a2"
               /\ o.name = "completeTask" => o.str = "r1"}

WaitCall(o) ==
  /\ pc[1] = "idle"
  /\ calls < MaxCalls
  /\ calls' = calls + 1
  /\ Fresh(o)
  /\ Room(o)
  /\ Call(1, o)
  /\ UNCHANGED handler

NextWait ==
  \/ \E o \in OpsWait : WaitCall(o)
  \/ EnsureFill(1)
  \/ Start(1)
  \/ Commit(1)
  \/ Release(1)
  \/ Crash(1)
  \/ LockGoesStale
  \/ \E w \in WaitIds, a \in AgentIds : WaitStart(w, a)
  \/ \E w \in WaitIds : WaitEnsureCreate(w)
  \/ \E w \in WaitIds : WaitEnsureFill(w)
  \/ \E w \in WaitIds : WaitPoll(w)
  \/ \E w \in WaitIds : WaitReturn(w)

SpecWait == Init /\ [][NextWait]_vars

\* The loop of waitForTask never stops polling: while (true) with a sleep
\* of POLL_INTERVAL_MS between two iterations.
SpecWaitFair == SpecWait /\ \A w \in WaitIds : WF_vars(WaitPoll(w))

\* --------------------------------------- the tool handlers (index.ts) ----
\* The idle agents, as getAvailableAgents reads them without the lock.
getAvailableAgents(s) == {a \in DOMAIN s.agents : s.agents[a].status = "idle"}

\* The agents that carry the name; getAgentByName returns one, or null.
getAgentByName(s, n) == {a \in DOMAIN s.agents : s.agents[a].name = n}

\* enlist: registerAgent (the wait that follows only reads).
Enlist(p, id) ==
  /\ handler[p].pc = "idle"
  /\ Fresh([Op("registerAgent", NULL, NULL, NULL) EXCEPT !.id = id])
  /\ Call(p, [Op("registerAgent", NULL, NULL, NULL) EXCEPT !.id = id])
  /\ UNCHANGED <<calls, handler>>

\* task_complete(agentId, result): getAllAgents() finds the agent and its
\* currentTaskId (an error is returned when either is missing);
TaskCompleteStart(p, a) ==
  /\ handler[p].pc = "idle"
  /\ pc[p] = "idle"
  /\ file.k /= "absent"
  /\ a \in DOMAIN readState(file).agents
  /\ Truthy(readState(file).agents[a].currentTaskId)
  /\ handler' = [handler EXCEPT ![p] =
                   [NoHandler EXCEPT !.pc = "completing", !.agent = a,
                                     !.task = readState(file).agents[a].currentTaskId]]
  /\ UNCHANGED <<file, tmp, lock, pc, op, snap, ret, quiet, wait, lastCommit, crashes, calls>>

\* then completeTask(taskId, result) (the wait that follows only reads).
TaskCompleteCall(p, r) ==
  /\ handler[p].pc = "completing"
  /\ Call(p, Op("completeTask", handler[p].task, NULL, r))
  /\ handler' = [handler EXCEPT ![p] = NoHandler]
  /\ UNCHANGED calls

\* delegate(prompt, agentName, agentId?): getAvailableAgents(), with no
\* state file yet its ensureStateFile creates one and no agent is found;
DelegateStart(p, n, a) ==
  /\ handler[p].pc = "idle"
  /\ pc[p] = "idle"
  /\ IF file.k = "absent"
     THEN /\ file' = Partial
          /\ handler' = [handler EXCEPT ![p].pc = "ensuring"]
     ELSE /\ getAvailableAgents(readState(file)) /= {}
          /\ handler' = [handler EXCEPT ![p] =
                           [pc |-> "named", avail |-> getAvailableAgents(readState(file)),
                            name |-> n, agent |-> a, task |-> NULL]]
          /\ UNCHANGED file
  /\ UNCHANGED <<tmp, lock, pc, op, snap, ret, quiet, wait, lastCommit, crashes, calls>>

DelegateEnsureFill(p) ==
  /\ handler[p].pc = "ensuring"
  /\ file' = ensureFill(file)
  /\ handler' = [handler EXCEPT ![p] = NoHandler]
  /\ UNCHANGED <<tmp, lock, pc, op, snap, ret, quiet, wait, lastCommit, crashes, calls>>

\* then getAgentByName(agentName), a second read, and the choice of the
\* target among the agents the first read found idle: the requested one,
\* or availableAgents[0], which is any of them since the key order of
\* state.agents is not kept here;
DelegateCheckName(p) ==
  /\ handler[p].pc = "named"
  /\ IF getAgentByName(readState(file), handler[p].name) /= {}
     THEN handler' = [handler EXCEPT ![p] = NoHandler]
     ELSE IF handler[p].agent = NULL
     THEN \E a \in handler[p].avail :
            handler' = [handler EXCEPT ![p].pc = "create", ![p].agent = a]
     ELSE IF handler[p].agent \in handler[p].avail
     THEN handler' = [handler EXCEPT ![p].pc = "create"]
     ELSE handler' = [handler EXCEPT ![p] = NoHandler]
  /\ UNCHANGED <<file, tmp, lock, pc, op, snap, ret, quiet, wait, lastCommit, crashes, calls>>

\* A createTask whose generateId repeats an id of the store.
DelegateCreateRepeatedId(p, id) ==
  /\ handler[p].pc = "create"
  /\ Call(p, [Op("createTask", NULL, NULL, NULL) EXCEPT !.id = id])
  /\ handler' = [handler EXCEPT ![p] =
                   IF pc'[p] = "idle" THEN NoHandler
                   ELSE [@ EXCEPT !.pc = "assign", !.task = id]]
  /\ UNCHANGED calls

\* then createTask(prompt), which ends the handler when withLock throws;
DelegateCreate(p, id) ==
  /\ handler[p].pc = "create"
  /\ Fresh([Op("createTask", NULL, NULL, NULL) EXCEPT !.id = id])
  /\ Call(p, [Op("createTask", NULL, NULL, NULL) EXCEPT !.id = id])
  /\ handler' = [handler EXCEPT ![p] =
                   IF pc'[p] = "idle" THEN NoHandler
                   ELSE [@ EXCEPT !.pc = "assign", !.task = id]]
  /\ UNCHANGED calls

\* then assignTaskToAgent(task.id, targetAgent.id, agentName).
DelegateAssign(p) ==
  /\ handler[p].pc = "assign"
  /\ Call(p, Op("assignTaskToAgent", handler[p].task, handler[p].agent, handler[p].name))
  /\ handler' = [handler EXCEPT ![p] = NoHandler]
  /\ UNCHANGED calls

\* SpecDelegate: the processes run enlist, delegate and task_complete.
NextDelegate ==
  \/ \E p \in Procs, id \in generateId(AgentIds) : Enlist(p, id)
  \/ \E p \in Procs, a \in AgentIds : TaskCompleteStart(p, a)
  \/ \E p \in Procs : TaskCompleteCall(p, "r1")
  \/ \E p \in Procs, n \in Names, a \in AgentIds \cup {NULL} : DelegateStart(p, n, a)
  \/ \E p \in Procs : DelegateEnsureFill(p)
  \/ \E p \in Procs : DelegateCheckName(p)
  \/ \E p \in Procs, id \in generateId(TaskIds) : DelegateCreate(p, id)
  \/ \E p \in Procs : DelegateAssign(p)
  \/ \E p \in Procs : EnsureFill(p)
  \/ \E p \in Procs : Start(p)
  \/ \E p \in Procs : Commit(p)
  \/ \E p \in Procs : Release(p)

SpecDelegate == Init /\ [][NextDelegate]_vars

\* status_update(agentId, message): getAllAgents() finds the agent and its
\* currentTaskId (an error is returned when either is missing);
StatusUpdateStart(p, a) ==
  /\ handler[p].pc = "idle"
  /\ pc[p] = "idle"
  /\ file.k /= "absent"
  /\ a \in DOMAIN readState(file).agents
  /\ Truthy(readState(file).agents[a].currentTaskId)
  /\ Room(Op("updateTaskStatus", NULL, NULL, NULL))
  /\ handler' = [handler EXCEPT ![p] =
                   [NoHandler EXCEPT !.pc = "updating", !.agent = a,
                                     !.task = readState(file).agents[a].currentTaskId]]
  /\ UNCHANGED <<file, tmp, lock, pc, op, snap, ret, quiet, wait, lastCommit, crashes, calls>>

\* then updateTaskStatus(agent.currentTaskId, message).
StatusUpdateCall(p, m) ==
  /\ handler[p].pc = "updating"
  /\ Room(Op("updateTaskStatus", handler[p].task, NULL, m))
  /\ Call(p, Op("updateTaskStatus", handler[p].task, NULL, m))
  /\ handler' = [handler EXCEPT ![p] = NoHandler]
  /\ UNCHANGED calls

\* halt(reason): triggerHalt(reason).
Halt(p, reason) ==
  /\ handler[p].pc = "idle"
  /\ Call(p, Op("triggerHalt", NULL, NULL, reason))
  /\ UNCHANGED <<calls, handler>>

\* clear_halt(): clearHalt().
ClearHalt(p) ==
  /\ handler[p].pc = "idle"
  /\ Call(p, Op("clearHalt", NULL, NULL, NULL))
  /\ UNCHANGED <<calls, handler>>

\* SpecTools: the processes run the tools that change the state, in any
\* interleaving: enlist, delegate, status_update, task_complete, halt and
\* clear_halt.
NextTools ==
  \/ NextDelegate
  \/ \E p \in Procs, a \in AgentIds : StatusUpdateStart(p, a)
  \/ \E p \in Procs, m \in Messages : StatusUpdateCall(p, m)
  \/ \E p \in Procs : Halt(p, "boom")
  \/ \E p \in Procs : ClearHalt(p)

SpecTools == Init /\ [][NextTools]_vars

\* The blocking tools.  Process 1 is a background agent: it calls enlist,
\* works on the task the call returns, calls task_complete, works on the
\* task that call returns, and so on; it presents its own agent id, and it
\* stops when a call returns the halt response.
\* enlist: registerAgent(), with generateId as it is: the id may be one
\* the store holds already.  The call ends when withLock throws;
BlockedEnlist(id) ==
  /\ handler[1].pc = "idle"
  /\ wait[1].st = "free"
  /\ Call(1, [Op("registerAgent", NULL, NULL, NULL) EXCEPT !.id = id])
  /\ handler' = [handler EXCEPT ![1] =
                   IF pc'[1] = "idle" THEN NoHandler
                   ELSE [NoHandler EXCEPT !.pc = "enlisting", !.agent = id]]
  /\ UNCHANGED calls

\* (registerAgent goes on after ensureStateFile created the file)
BlockedStart ==
  /\ pc[1] = "start"
  /\ Enter(1, op[1])
  /\ handler' = [handler EXCEPT ![1] = IF pc'[1] = "idle" THEN NoHandler ELSE @]
  /\ UNCHANGED <<wait, lastCommit, crashes, calls>>

\* then, registerAgent having returned the agent, waitForTask(agent.id).
BlockedEnlistWait ==
  /\ handler[1].pc = "enlisting"
  /\ pc[1] = "idle"
  /\ wait' = [wait EXCEPT ![1] = [st |-> "inflight", agent |-> handler[1].agent,
                                   result |-> NoResult, slept |-> FALSE]]
  /\ handler' = [handler EXCEPT ![1].pc = "blocked"]
  /\ UNCHANGED <<file, tmp, lock, pc, op, snap, ret, quiet, lastCommit, crashes, calls>>

\* The wait has resolved and the call returns: the task, the halt response
\* or the error for a removed agent.
BlockedReturn ==
  /\ handler[1].pc = "blocked"
  /\ wait[1].st = "done"
  /\ handler' = [handler EXCEPT ![1].pc = IF wait[1].result.type = "task" THEN "working"
                                          ELSE wait[1].result.type,
                                ![1].task = wait[1].result.task]
  /\ wait' = [wait EXCEPT ![1] = FreeWait]
  /\ UNCHANGED <<file, tmp, lock, pc, op, snap, ret, quiet, lastCommit, crashes, calls>>

\* task_complete(agentId, result) of the background agent: getAllAgents()
\* finds the agent and its currentTaskId;
BlockedCompleteStart ==
  /\ handler[1].pc = "working"
  /\ pc[1] = "idle"
  /\ handler[1].agent \in DOMAIN readState(file).agents
  /\ Truthy(readState(file).agents[handler[1].agent].currentTaskId)
  /\ handler' = [handler EXCEPT ![1].pc = "completing",
                                ![1].task = readState(file).agents[handler[1].agent].currentTaskId]
  /\ UNCHANGED <<file, tmp, lock, pc, op, snap, ret, quiet, wait, lastCommit, crashes, calls>>

\* then completeTask(taskId, result); the call ends in an error when
\* withLock throws or completeTask returns false;
BlockedCompleteCall(r) ==
  /\ handler[1].pc = "completing"
  /\ Call(1, Op("completeTask", handler[1].task, NULL, r))
  /\ handler' = [handler EXCEPT ![1].pc = IF pc'[1] /= "idle" /\ ret'[1] = "true"
                                          THEN "completed" ELSE "working"]
  /\ UNCHANGED calls

\* then, completeTask having returned true, waitForTask(agent.id).
BlockedCompleteWait ==
  /\ handler[1].pc = "completed"
  /\ pc[1] = "idle"
  /\ wait' = [wait EXCEPT ![1] = [st |-> "inflight", agent |-> handler[1].agent,
                                   result |-> NoResult, slept |-> FALSE]]
  /\ handler' = [handler EXCEPT ![1].pc = "blocked", ![1].task = NULL]
  /\ UNCHANGED <<file, tmp, lock, pc, op, snap, ret, quiet, lastCommit, crashes, calls>>

\* enlist of another background agent, run by process 2 and followed up to
\* the return of registerAgent, with generateId as it is: the id may be one
\* the store holds already.
OtherEnlist(id) ==
  /\ handler[2].pc = "idle"
  /\ Call(2, [Op("registerAgent", NULL, NULL, NULL) EXCEPT !.id = id])
  /\ UNCHANGED <<calls, handler>>

\* createTask(prompt) of the main agent's delegate, with generateId as it
\* is: the id may be one the store holds already.
BlockedDelegateCreate(id) ==
  /\ handler[2].pc = "create"
  /\ Call(2, [Op("createTask", NULL, NULL, NULL) EXCEPT !.id = id])
  /\ handler' = [handler EXCEPT ![2] =
                   IF pc'[2] = "idle" THEN NoHandler
                   ELSE [@ EXCEPT !.pc = "assign", !.task = id]]
  /\ UNCHANGED calls

\* The names the main agent gives: an agent keeps its name after its task,
\* so a second task for it needs a second name.
MoreNames == Names \cup {"W2"}

\* SpecBlocked: process 1 is a background agent; process 2 runs the calls
\* of the main agent (delegate, halt, clear_halt) and the enlist of another
\* background agent.
NextBlocked ==
  \/ \E id \in generateId(AgentIds) : BlockedEnlist(id)
  \/ BlockedEnlistWait
  \/ WaitPoll(1)
  \/ BlockedReturn
  \/ BlockedCompleteStart
  \/ BlockedCompleteCall("r1")
  \/ BlockedCompleteWait
  \/ \E id \in generateId(AgentIds) : OtherEnlist(id)
  \/ \E n \in MoreNames, a \in AgentIds \cup {NULL} : DelegateStart(2, n, a)
  \/ DelegateEnsureFill(2)
  \/ DelegateCheckName(2)
  \/ \E id \in generateId(TaskIds) : BlockedDelegateCreate(id)
  \/ DelegateAssign(2)
  \/ Halt(2, "boom")
  \/ ClearHalt(2)
  \/ \E p \in Procs : EnsureFill(p)
  \/ BlockedStart
  \/ Start(2)
  \/ \E p \in Procs : Commit(p)
  \/ \E p \in Procs : Release(p)

SpecBlocked == Init /\ [][NextBlocked]_vars

\* The loop of waitForTask never stops polling, a call that is inside
\* withLock runs to its end, and a handler that is not inside waitForTask
\* runs on to its next statement.  When the background agent calls
\* task_complete is its own affair.
SpecBlockedFair ==
  /\ SpecBlocked
  /\ WF_vars(WaitPoll(1))
  /\ \A p \in Procs : WF_vars(EnsureFill(p))
  /\ WF_vars(BlockedStart)
  /\ WF_vars(Start(2))
  /\ \A p \in Procs : WF_vars(Commit(p))
  /\ \A p \in Procs : WF_vars(Release(p))
  /\ WF_vars(DelegateEnsureFill(2))
  /\ WF_vars(DelegateCheckName(2))
  /\ WF_vars(\E id \in generateId(TaskIds) : BlockedDelegateCreate(id))
  /\ WF_vars(DelegateAssign(2))
  /\ WF_vars(BlockedCompleteCall("r1"))
  /\ WF_vars(BlockedEnlistWait)
  /\ WF_vars(BlockedCompleteWait)
  /\ WF_vars(BlockedReturn)

\* ------------------------------------------------------------- claims ----
\* The snapshot of the last completed commit, the empty one before any.
Committed == readState(lastCommit)

\* C1: at most one mutating operation, over all processes, is between its
\* snapshot read and its snapshot commit.
C1_MutualExclusion == Cardinality({p \in Procs : pc[p] = "writing"}) <= 1

\* One operation is between read and commit, and the attempt of another
\* process to enter was turned away.
C1_Witness ==
  \E p, q \in Procs : p /= q /\ pc[p] = "writing" /\ lock = [st |-> "held", by |-> {p}]
                      /\ pc[q] = "idle" /\ ret[q] = "ELOCKED"

\* C2: what a lock-free read returns, at any moment of any interleaving
\* with a writer, is the snapshot of the last completed commit, or the
\* empty initial snapshot when no commit has completed: never a torn one.
C2_NoTornReads == readState(file) = Committed

\* A wait is polling an agent of the store while a writer is in the middle
\* of writing the next snapshot.
C2_Witness ==
  \E w \in WaitIds :
    /\ wait[w].st = "inflight"
    /\ wait[w].agent \in DOMAIN Committed.agents
    /\ pc[1] = "writing"
    /\ tmp.k = "partial"
    /\ snap[1] /= Committed

\* Two calls of assignTaskToAgent by different processes that name the
\* same agent, with no other kind of operation committing meanwhile.
Rivals(p, q) ==
  /\ p /= q
  /\ quiet[p] /\ quiet[q]
  /\ op[p].agent = op[q].agent

\* C3: of two concurrent assignTaskToAgent calls that name the same idle
\* agent, at most one returns true.
C3_AtMostOneWins ==
  \A p, q \in Procs : Rivals(p, q) => ~(ret[p] = "true" /\ ret[q] = "true")

\* Both calls have ended: one returned true, the other did not.
C3_Witness ==
  \E p, q \in Procs :
    /\ Rivals(p, q)
    /\ pc[p] = "idle" /\ pc[q] = "idle"
    /\ ret[p] = "true" /\ ret[q] /= "true"
    /\ op[p].agent \in DOMAIN Store.agents

\* C4: when two assignTaskToAgent calls on the same idle agent race and no
\* process is killed, the call that loses ends with its ordinary return
\* value false, not in an error: one returns true and the other false.
C4_LoserReturnsFalse ==
  \A p, q \in Procs :
    (Rivals(p, q) /\ pc[p] = "idle" /\ pc[q] = "idle" /\ crashes = 0
       /\ ret[p] = "true")
      => ret[q] = "false"

\* C5: an agent is busy iff its currentTaskId names a task of the store
\* that is in_progress and whose agentId is this agent.
Linked(s, a) ==
  /\ s.agents[a].currentTaskId \in DOMAIN s.tasks
  /\ s.tasks[s.agents[a].currentTaskId].status = "in_progress"
  /\ s.tasks[s.agents[a].currentTaskId].agentId = a

C5_LinkInvariant ==
  \A a \in DOMAIN Store.agents : Store.agents[a].status = "busy" <=> Linked(Store, a)

Rank(status) ==
  CASE status = "pending" -> 0 [] status = "in_progress" -> 1 [] status = "completed" -> 2

\* The tasks that are in the store before and after a step.
Staying == DOMAIN Store.tasks \cap DOMAIN Store'.tasks

\* C6: the status of a task only moves pending -> in_progress -> completed.
C6_StatusOneWay ==
  [][\A t \in Staying : Rank(Store.tasks[t].status) <= Rank(Store'.tasks[t].status)]_vars

\* C7: agentId is null exactly while the task is pending, and once set it
\* never changes.
C7_AgentIdSetOnce ==
  [][\A t \in Staying :
       /\ (Store.tasks[t].agentId = NULL) <=> (Store.tasks[t].status = "pending")
       /\ Store.tasks[t].agentId /= NULL => Store'.tasks[t].agentId = Store.tasks[t].agentId
    ]_vars

\* C8: assignTaskToAgent returns true only for a task that is pending.
C8_AssignOnlyPending ==
  \A p \in Procs :
    (IsAssign(op[p]) /\ pc[p] = "writing" /\ ret[p] = "true")
      => Store.tasks[op[p].task].status = "pending"

\* C9: the result of a task that is not completed is null.
C9_ResultNullUntilCompleted ==
  \A t \in DOMAIN Store.tasks :
    Store.tasks[t].status /= "completed" => Store.tasks[t].result = NULL

\* A poll of wait w resolves it in this step.
Resolves(w) == wait[w].st = "inflight" /\ wait'[w].st = "done"

\* The operation that commits in this step, "none" when none does.
Committing ==
  IF \E p \in Procs : pc[p] = "writing" /\ pc'[p] = "unlock"
  THEN (CHOOSE p \in Procs : pc[p] = "writing" /\ pc'[p] = "unlock")
  ELSE 0

CommittingOp == IF Committing = 0 THEN "none" ELSE op[Committing].name

Reported(reason) == IF reason = "" THEN "Unknown error" ELSE reason

Assigned(w) ==
  /\ wait[w].st = "inflight"
  /\ ~Store.halt.halted
  /\ wait[w].agent \in DOMAIN Store.agents
  /\ Store.agents[wait[w].agent].status = "busy"
  /\ Store.agents[wait[w].agent].currentTaskId \in DOMAIN Store.tasks
  /\ Store.tasks[Store.agents[wait[w].agent].currentTaskId].status = "in_progress"

RemovedUnder(w) ==
  /\ wait[w].st = "inflight" /\ wait[w].slept
  /\ \E p \in Procs : /\ pc[p] = "unlock"
                      /\ op[p].name = "removeAgent"
                      /\ op[p].agent = wait[w].agent
                      /\ ret[p] = "true"

TurnedAway ==
  \/ calls' /= calls /\ pc' = pc
  \/ \E p \in Procs : pc[p] = "start" /\ pc'[p] = "idle" /\ crashes' = crashes

\* C13: a lock left behind by a process that died holding it stops no
\* later call of a live process from acquiring the gate and committing:
\* a call is turned away only by a holder that is alive.
C13_NotWedged == [][TurnedAway => lock.st = "held"]_vars

\* C14: the id that registerAgent or createTask gets from generateId is
\* not the id of a record in the store, so the call overwrites no agent
\* and no task.
C14_IdsUnique ==
  \A p \in Procs :
    pc[p] = "writing" =>
      /\ op[p].name = "registerAgent" => op[p].id \notin DOMAIN Store.agents
      /\ op[p].name = "createTask" => op[p].id \notin DOMAIN Store.tasks

\* C15: no two agents of the store that hold an in-progress assignment
\* have the same non-null name, after any interleaving of delegate calls.
C15_UniqueNames ==
  \A a, b \in DOMAIN Store.agents :
    (a /= b /\ Store.agents[a].status = "busy" /\ Store.agents[b].status = "busy"
       /\ Store.agents[a].name /= NULL)
      => Store.agents[a].name /= Store.agents[b].name

\* The fn of process p runs in this step: op'[p] is the call, Store the
\* state it reads, ret'[p] what it returns, and snap'[p] the state it hands
\* to writeState when pc'[p] is "writing"; with "unlock" nothing is written.
Entering(p) == pc[p] \in {"idle", "start"} /\ pc'[p] \in {"writing", "unlock"}

\* The call writes nothing.
NoWrite(p) == pc'[p] = "unlock" /\ file' = file

\* C16: assignTaskToAgent(t, a, n) returns false and writes nothing when t
\* is missing, a is missing or a is not idle; otherwise it returns true and
\* writes the state in which t is in_progress with agentId a, a is busy
\* with currentTaskId t and name n, and all other agents and tasks are as
\* before.
C16_AssignContract ==
  [][\A p \in Procs :
       (Entering(p) /\ IsAssign(op'[p])) =>
          LET s == Store
              t == op'[p].task
              a == op'[p].agent
              n == snap'[p]
          IN IF t \notin DOMAIN s.tasks \/ a \notin DOMAIN s.agents
                \/ s.agents[a].status /= "idle"
             THEN ret'[p] = "false" /\ NoWrite(p)
             ELSE /\ ret'[p] = "true" /\ pc'[p] = "writing"
                  /\ DOMAIN n.tasks = DOMAIN s.tasks
                  /\ DOMAIN n.agents = DOMAIN s.agents
                  /\ n.tasks[t].status = "in_progress"
                  /\ n.tasks[t].agentId = a
                  /\ n.agents[a] =
                       [name |-> op'[p].str, status |-> "busy", currentTaskId |-> t]
                  /\ \A x \in DOMAIN s.tasks \ {t} : n.tasks[x] = s.tasks[x]
                  /\ \A x \in DOMAIN s.agents \ {a} : n.agents[x] = s.agents[x]
    ]_vars

\* An assignment has committed beside another agent and another task.
C16_Witness ==
  \E p \in Procs :
    /\ pc[p] = "unlock" /\ IsAssign(op[p]) /\ ret[p] = "true"
    /\ Store.agents[op[p].agent] =
         [name |-> op[p].str, status |-> "busy", currentTaskId |-> op[p].task]
    /\ Store.tasks[op[p].task].status = "in_progress"
    /\ DOMAIN Store.agents /= {op[p].agent}
    /\ DOMAIN Store.tasks /= {op[p].task}

\* C17: completeTask(t, r) returns true exactly when t exists and is
\* in_progress; it then writes the state in which t is completed with
\* result r and a completedAt, the agent of t.agentId, when in the store,
\* is idle with no currentTaskId and its name as before, and all other
\* agents and tasks are as before; otherwise it writes nothing.
C17_CompleteContract ==
  [][\A p \in Procs :
       (Entering(p) /\ op'[p].name = "completeTask") =>
          LET s == Store
              t == op'[p].task
              n == snap'[p]
          IN IF t \notin DOMAIN s.tasks \/ s.tasks[t].status /= "in_progress"
             THEN ret'[p] = "false" /\ NoWrite(p)
             ELSE /\ ret'[p] = "true" /\ pc'[p] = "writing"
                  /\ DOMAIN n.tasks = DOMAIN s.tasks
                  /\ DOMAIN n.agents = DOMAIN s.agents
                  /\ n.tasks[t].status = "completed"
                  /\ n.tasks[t].result = op'[p].str
                  /\ n.tasks[t].completedAt /= NULL
                  /\ \A x \in DOMAIN s.tasks \ {t} : n.tasks[x] = s.tasks[x]
                  /\ \A x \in DOMAIN s.agents :
                       n.agents[x] =
                         IF x = s.tasks[t].agentId
                         THEN [name |-> s.agents[x].name, status |-> "idle",
                               currentTaskId |-> NULL]
                         ELSE s.agents[x]
    ]_vars

\* A completion has committed: the task is completed with the result given
\* and its agent is idle again under its name, beside another agent.
C17_Witness ==
  \E p \in Procs :
    /\ pc[p] = "unlock" /\ op[p].name = "completeTask" /\ ret[p] = "true"
    /\ Store.tasks[op[p].task].status = "completed"
    /\ Store.tasks[op[p].task].result = op[p].str
    /\ Store.tasks[op[p].task].agentId \in DOMAIN Store.agents
    /\ Store.agents[Store.tasks[op[p].task].agentId] =
         [name |-> "W1", status |-> "idle", currentTaskId |-> NULL]
    /\ Cardinality(DOMAIN Store.agents) > 1

\* C18: completeTask on a task that is completed returns false and writes
\* nothing: result, completedAt and all the rest stay as the first
\* completion left them.
C18_CompleteOnce ==
  [][\A p \in Procs :
       (/\ Entering(p) /\ op'[p].name = "completeTask"
        /\ op'[p].task \in DOMAIN Store.tasks
        /\ Store.tasks[op'[p].task].status = "completed") =>
          ret'[p] = "false" /\ NoWrite(p) /\ Store' = Store
    ]_vars

\* A second completeTask, with another result, has returned false on a
\* completed task, which has the result of the first.
C18_Witness ==
  \E p \in Procs :
    /\ pc[p] = "unlock" /\ op[p].name = "completeTask" /\ ret[p] = "false"
    /\ op[p].task \in DOMAIN Store.tasks
    /\ Store.tasks[op[p].task].status = "completed"
    /\ Store.tasks[op[p].task].result /= op[p].str

\* C19: updateTaskStatus(t, m) returns true exactly when t exists and is
\* in_progress; it then writes t.updates with one entry more, of message m,
\* at the end and the earlier entries before it in their order; otherwise
\* it returns false and writes nothing.
C19_UpdateContract ==
  [][\A p \in Procs :
       (Entering(p) /\ op'[p].name = "updateTaskStatus") =>
          LET s == Store
              t == op'[p].task
              n == snap'[p]
          IN IF t \notin DOMAIN s.tasks \/ s.tasks[t].status /= "in_progress"
             THEN ret'[p] = "false" /\ NoWrite(p) /\ Store' = Store
             ELSE /\ ret'[p] = "true" /\ pc'[p] = "writing"
                  /\ Len(n.tasks[t].updates) = Len(s.tasks[t].updates) + 1
                  /\ n.tasks[t].updates[Len(n.tasks[t].updates)].message = op'[p].str
                  /\ \A i \in 1..Len(s.tasks[t].updates) :
                       n.tasks[t].updates[i] = s.tasks[t].updates[i]
    ]_vars

\* A second update, with another message, has committed behind the first.
C19_Witness ==
  \E p \in Procs :
    /\ pc[p] = "unlock" /\ op[p].name = "updateTaskStatus" /\ ret[p] = "true"
    /\ Len(Store.tasks[op[p].task].updates) = 2
    /\ Store.tasks[op[p].task].updates[2].message = op[p].str
    /\ Store.tasks[op[p].task].updates[1].message /= op[p].str

IsPrefix(u, v) == Len(u) <= Len(v) /\ \A i \in 1..Len(u) : u[i] = v[i]

C21_RemoveContract ==
  [][\A p \in Procs :
       (Entering(p) /\ op'[p].name = "removeAgent") =>
          LET s == Store
              a == op'[p].agent
              n == snap'[p]
          IN IF a \notin DOMAIN s.agents
             THEN ret'[p] = "false" /\ NoWrite(p) /\ Store' = Store
             ELSE /\ ret'[p] = "true" /\ pc'[p] = "writing"
                  /\ DOMAIN n.agents = DOMAIN s.agents \ {a}
                  /\ \A x \in DOMAIN n.agents : n.agents[x] = s.agents[x]
                  /\ n.tasks = s.tasks
                  /\ n.halt = s.halt
    ]_vars

\* The removal of a busy agent has committed: its task is in the store,
\* in_progress, with the agentId of the agent that is gone.
C21_Witness ==
  \E p \in Procs, t \in DOMAIN Store.tasks :
    /\ pc[p] = "unlock" /\ op[p].name = "removeAgent" /\ ret[p] = "true"
    /\ op[p].agent \notin DOMAIN Store.agents
    /\ Store.tasks[t].agentId = op[p].agent
    /\ Store.tasks[t].status = "in_progress"
    /\ DOMAIN Store.agents /= {}

\* The call names an agent or a task that is not in the store, or one that
\* is in the wrong state for it.
Refused(s, o) ==
  CASE o.name = "assignTaskToAgent" ->
         \/ o.task \notin DOMAIN s.tasks
         \/ o.agent \notin DOMAIN s.agents
         \/ s.agents[o.agent].status /= "idle"
    [] o.name \in {"updateTaskStatus", "completeTask"} ->
         \/ o.task \notin DOMAIN s.tasks
         \/ s.tasks[o.task].status /= "in_progress"
    [] o.name = "removeAgent" -> o.agent \notin DOMAIN s.agents
    [] OTHER -> FALSE

\* C22: assignTaskToAgent, updateTaskStatus, completeTask and removeAgent
\* on a missing agent or task, or on one in the wrong state, return false
\* and leave the snapshot as it is; they return true or false, never an
\* error, whatever their arguments.
C22_FalseNotError ==
  [][\A p \in Procs :
       (Entering(p) /\ op'[p].name \in {"assignTaskToAgent", "updateTaskStatus",
                                         "completeTask", "removeAgent"}) =>
          /\ ret'[p] \in {"true", "false"}
          /\ Refused(Store, op'[p]) =>
                ret'[p] = "false" /\ NoWrite(p) /\ Store' = Store
    ]_vars

\* updateTaskStatus on a task that is not in the store has returned false
\* beside tasks and agents that are as they were.
C22_Witness ==
  \E p \in Procs :
    /\ pc[p] = "unlock" /\ op[p].name = "updateTaskStatus" /\ ret[p] = "false"
    /\ op[p].task \notin DOMAIN Store.tasks
    /\ DOMAIN Store.tasks /= {} /\ DOMAIN Store.agents /= {}
    /\ file = lastCommit

\* C23: registerAgent and createTask succeed in every state and under every
\* interleaving: the gate lets in every process that calls, and the call
\* writes the state with one record more, the new agent (name null, idle,
\* no currentTaskId) or the new task (pending, agentId null, no updates,
\* result and completedAt null) under the id it returns, next to the
\* records that were there, all as they were.
C23_AlwaysAddsOne ==
  /\ [](\A p \in Procs : pc[p] \in {"idle", "start"} => lockSync(lock, p).ok)
  /\ [][\A p \in Procs :
          /\ (Entering(p) /\ op'[p].name = "registerAgent") =>
                /\ pc'[p] = "writing" /\ ret'[p] = op'[p].id
                /\ op'[p].id \notin DOMAIN Store.agents
                /\ DOMAIN snap'[p].agents = DOMAIN Store.agents \cup {op'[p].id}
                /\ snap'[p].agents[op'[p].id] =
                     [name |-> NULL, status |-> "idle", currentTaskId |-> NULL]
                /\ \A x \in DOMAIN Store.agents : snap'[p].agents[x] = Store.agents[x]
                /\ snap'[p].tasks = Store.tasks
          /\ (Entering(p) /\ op'[p].name = "createTask") =>
                /\ pc'[p] = "writing" /\ ret'[p] = op'[p].id
                /\ op'[p].id \notin DOMAIN Store.tasks
                /\ DOMAIN snap'[p].tasks = DOMAIN Store.tasks \cup {op'[p].id}
                /\ snap'[p].tasks[op'[p].id] =
                     [agentId |-> NULL, status |-> "pending", updates |-> <<>>,
                      result |-> NULL, completedAt |-> NULL]
                /\ \A x \in DOMAIN Store.tasks : snap'[p].tasks[x] = Store.tasks[x]
                /\ snap'[p].agents = Store.agents
       ]_vars

\* C24: in every state of the store, and in every state a call is about to
\* write, the currentTaskId of an agent is null iff its status is idle.
C24_CurrentTaskIffBusy ==
  /\ \A a \in DOMAIN Store.agents :
       (Store.agents[a].currentTaskId = NULL) <=> (Store.agents[a].status = "idle")
  /\ \A p \in Procs : \A a \in DOMAIN snap[p].agents :
       (snap[p].agents[a].currentTaskId = NULL) <=> (snap[p].agents[a].status = "idle")

\* One agent is idle again, under its name, after its task was completed,
\* and another agent is busy with a task.
C24_Witness ==
  \E a, b \in DOMAIN Store.agents :
    /\ Store.agents[a] = [name |-> "W1", status |-> "idle", currentTaskId |-> NULL]
    /\ Store.agents[b].status = "busy" /\ Store.agents[b].currentTaskId \in TaskIds
    /\ \E t \in DOMAIN Store.tasks :
         Store.tasks[t].status = "completed" /\ Store.tasks[t].agentId = a

\* C25: triggerHalt(reason) writes, whatever the state, the state with halt
\* set and that reason, in the place of the reason of an earlier halt;
\* clearHalt() writes, whatever the state, the state with halt not set and
\* a null reason; both write every agent and every task as they were.
C25_HaltContract ==
  [][\A p \in Procs :
       /\ (Entering(p) /\ op'[p].name = "triggerHalt") =>
             /\ pc'[p] = "writing"
             /\ snap'[p].halt = [halted |-> TRUE, reason |-> op'[p].str]
             /\ snap'[p].agents = Store.agents
             /\ snap'[p].tasks = Store.tasks
       /\ (Entering(p) /\ op'[p].name = "clearHalt") =>
             /\ pc'[p] = "writing"
             /\ snap'[p].halt = [halted |-> FALSE, reason |-> NULL]
             /\ snap'[p].agents = Store.agents
             /\ snap'[p].tasks = Store.tasks
       /\ (pc[p] = "writing" /\ pc'[p] = "unlock"
             /\ op[p].name \in {"triggerHalt", "clearHalt"}) =>
             /\ Store' = snap[p]
             /\ Store'.agents = Store.agents
             /\ Store'.tasks = Store.tasks
    ]_vars

\* A second triggerHalt, with another reason, is about to replace the
\* reason of the first, in a store that has an agent and a task.
C25_Witness ==
  \E p \in Procs :
    /\ pc[p] = "writing" /\ op[p].name = "triggerHalt"
    /\ Store.halt.halted /\ Store.halt.reason /= op[p].str
    /\ snap[p].halt = [halted |-> TRUE, reason |-> op[p].str]
    /\ DOMAIN Store.agents /= {} /\ DOMAIN Store.tasks /= {}

\* C26: no step other than the commit of clearState takes a task out of
\* the store, and the commit of createTask leaves every task that was in
\* the store as it was: none is replaced by the new task.
C26_TasksNeverDeleted ==
  [][/\ CommittingOp /= "clearState" => DOMAIN Store.tasks \subseteq DOMAIN Store'.tasks
     /\ CommittingOp = "createTask" =>
           \A t \in DOMAIN Store.tasks : Store'.tasks[t] = Store.tasks[t]
    ]_vars

\* C27: a delegate call that finds no idle agent, finds the name carried by
\* an agent, or finds the requested agent not idle ends with the store as
\* it was; every other delegate call creates a task and assigns it to the
\* agent it chose among the idle ones (the requested one, if any), which it
\* leaves busy with that task under the requested name.
C27_DelegateContract ==
  [][\A p \in Procs :
       /\ (handler[p].pc \in {"idle", "ensuring", "named"}
             /\ handler'[p] /= handler[p] /\ pc'[p] = pc[p]) =>
             /\ Store' = Store
             /\ handler'[p].pc = "create" =>
                   /\ handler'[p].agent \in getAvailableAgents(Store)
                   /\ handler[p].agent \in {NULL, handler'[p].agent}
                   /\ getAgentByName(Store, handler[p].name) = {}
       /\ (handler[p].pc = "create" /\ handler'[p] /= handler[p]) =>
             /\ handler'[p].pc = "assign"
             /\ pc'[p] = "writing"
       /\ (handler[p].pc = "assign" /\ handler'[p] /= handler[p]) =>
             /\ pc'[p] = "writing" /\ ret'[p] = "true"
             /\ snap'[p].agents[handler[p].agent] =
                  [name |-> handler[p].name, status |-> "busy",
                   currentTaskId |-> handler[p].task]
             /\ snap'[p].tasks[handler[p].task].status = "in_progress"
             /\ snap'[p].tasks[handler[p].task].agentId = handler[p].agent
    ]_vars

\* C28: clearState() writes, whatever the state, the snapshot with no
\* agents, no tasks and halt not set, and this is what the store holds
\* when it has committed.
C28_ClearContract ==
  [][\A p \in Procs :
       /\ (Entering(p) /\ op'[p].name = "clearState") =>
             /\ pc'[p] = "writing"
             /\ snap'[p] = [agents |-> <<>>, tasks |-> <<>>,
                            halt |-> [halted |-> FALSE, reason |-> NULL]]
       /\ (pc[p] = "writing" /\ pc'[p] = "unlock" /\ op[p].name = "clearState") =>
             /\ DOMAIN Store'.agents = {} /\ DOMAIN Store'.tasks = {}
             /\ ~Store'.halt.halted /\ Store'.halt.reason = NULL
    ]_vars

\* clearState is about to replace a store that has an agent, a task and a
\* halt that is set.
C28_Witness ==
  \E p \in Procs :
    /\ pc[p] = "writing" /\ op[p].name = "clearState"
    /\ DOMAIN Store.agents /= {} /\ DOMAIN Store.tasks /= {}
    /\ Store.halt.halted
    /\ snap[p] = EmptyState

\* C29: while the state file is missing or holds no document that parses,
\* what is loaded is the empty initial snapshot: a call of a mutating
\* operation on a missing file creates the file and goes on, the body of a
\* mutating operation returns and writes what it returns and writes on the
\* empty snapshot, and a poll of waitForTask resolves as on the empty
\* snapshot, to removed; none ends in an error.
C29_LoadNeverFails ==
  /\ [](file.k /= "json" =>
          readState(file) = [agents |-> <<>>, tasks |-> <<>>,
                             halt |-> [halted |-> FALSE, reason |-> NULL]])
  /\ [][\A p \in Procs :
          /\ (pc[p] = "idle" /\ pc'[p] /= "idle" /\ file.k = "absent") =>
                pc'[p] = "ensuring" /\ file'.k /= "absent"
          /\ (Entering(p) /\ file.k /= "json") =>
                \E now \in Times :
                  LET r == Apply(op'[p], EmptyState, now)
                  IN /\ ret'[p] = r.ret
                     /\ IF r.write
                        THEN pc'[p] = "writing" /\ snap'[p] = r.st
                        ELSE NoWrite(p)
       ]_vars
  /\ [][\A w \in WaitIds :
          (wait[w].st = "inflight" /\ file.k /= "json" /\ wait'[w] /= wait[w]) =>
             IF file.k = "absent"
             THEN wait'[w].st = "ensuring" /\ file'.k /= "absent"
             ELSE /\ wait'[w].st = "done"
                  /\ wait'[w].result = [type |-> "removed", reason |-> NULL, task |-> NULL]
       ]_vars

\* The state file was left empty by a process killed while creating it: a
\* wait has resolved to removed on it, and registerAgent is about to write
\* the snapshot that holds its agent and nothing else.
C29_Witness ==
  \E w \in WaitIds, p \in Procs :
    /\ file.k = "partial"
    /\ wait[w].st = "done" /\ wait[w].result.type = "removed"
    /\ pc[p] = "writing" /\ op[p].name = "registerAgent"
    /\ DOMAIN snap[p].agents = {op[p].id} /\ DOMAIN snap[p].tasks = {}

\* C30: getAvailableAgents() returns the agents of the snapshot whose
\* status is idle, all of them and no other; when an assignment to an
\* agent commits, that agent and no other leaves the result; when
\* completeTask commits on the task an agent is busy with, that agent is in
\* the result again.
C30_AvailableAreIdle ==
  /\ [](\A a \in AgentIds :
          a \in getAvailableAgents(Store) <=>
            (a \in DOMAIN Store.agents /\ Store.agents[a].status = "idle"))
  /\ [][/\ CommittingOp = "assignTaskToAgent" =>
             getAvailableAgents(Store') =
               getAvailableAgents(Store) \ {op[Committing].agent}
        /\ CommittingOp = "completeTask" =>
             \A a \in DOMAIN Store.agents :
               Store.agents[a].currentTaskId = op[Committing].task =>
                 a \in getAvailableAgents(Store')
       ]_vars

\* What a load gives after the snapshot s was committed to the files f, t.
LoadAfterCommit(f, t, s) ==
  LET w1 == writeEnd(f, t, s)
      w2 == rename(w1.file, w1.tmp)
  IN readState(w2.file)

Polls(w) == wait[w].st = "inflight" /\ file.k /= "absent" /\ wait'[w] /= wait[w]

\* The agent of wait w is busy with a task that is in_progress.
HasTask(s, a) ==
  /\ a \in DOMAIN s.agents
  /\ s.agents[a].status = "busy"
  /\ s.agents[a].currentTaskId \in DOMAIN s.tasks
  /\ s.tasks[s.agents[a].currentTaskId].status = "in_progress"

\* C32: a poll looks at one snapshot, at halt first, then at the agent,
\* then at the assignment: with halt set it resolves to halted, whether the
\* agent is gone or has a task in_progress; with halt not set and the
\* agent gone it resolves to removed.
C32_PollOrder ==
  [][\A w \in WaitIds :
       Polls(w) =>
         /\ Store.halt.halted =>
               wait'[w].st = "done" /\ wait'[w].result.type = "halted"
         /\ (~Store.halt.halted /\ wait[w].agent \notin DOMAIN Store.agents) =>
               wait'[w].st = "done" /\ wait'[w].result.type = "removed"
         /\ (~Store.halt.halted /\ HasTask(Store, wait[w].agent)) =>
               wait'[w].st = "done" /\ wait'[w].result.type = "task"
    ]_vars

\* A wait has resolved to halted on a snapshot in which halt is set and
\* its agent has a task in_progress.
C32_Witness ==
  \E w \in WaitIds :
    /\ wait[w].st = "done" /\ wait[w].result.type = "halted"
    /\ Store.halt.halted
    /\ HasTask(Store, wait[w].agent)
    /\ \A p \in Procs : pc[p] = "idle"

\* C33: a wait resolves only in a poll; a poll that finds no halt set, the
\* agent in the store and no task in_progress for it resolves nothing, and
\* the wait stays in flight; and the variant a poll resolves to is true of
\* the snapshot it read: halted with halt set, removed with the agent not
\* in it, task with the agent busy with that task, in_progress.
C33_OnlyThreeWaysOut ==
  [][\A w \in WaitIds :
       /\ Resolves(w) => Polls(w)
       /\ Polls(w) =>
             /\ (/\ ~Store.halt.halted
                 /\ wait[w].agent \in DOMAIN Store.agents
                 /\ ~HasTask(Store, wait[w].agent)) =>
                   /\ wait'[w].st = "inflight"
                   /\ wait'[w].result = NoResult
             /\ wait'[w].st = "done" =>
                   CASE wait'[w].result.type = "halted" -> Store.halt.halted
                     [] wait'[w].result.type = "removed" ->
                          wait[w].agent \notin DOMAIN Store.agents
                     [] wait'[w].result.type = "task" ->
                          /\ HasTask(Store, wait[w].agent)
                          /\ wait'[w].result.task =
                               Store.agents[wait[w].agent].currentTaskId
                     [] OTHER -> FALSE
    ]_vars

\* A wait has polled and is still in flight: no halt is set, its agent is
\* idle, and a task of the store is not in_progress.
C33_Witness ==
  \E w \in WaitIds :
    /\ wait[w].st = "inflight" /\ wait[w].slept
    /\ ~Store.halt.halted
    /\ wait[w].agent \in DOMAIN Store.agents
    /\ Store.agents[wait[w].agent].status = "idle"
    /\ \E t \in DOMAIN Store.tasks : Store.tasks[t].status \in {"pending", "completed"}

\* C35: no update is lost.  The store changes only when a call commits;
\* the snapshot a call commits is the result of its operation on the store
\* as it is at that moment, so that the store is at any time the result of
\* the committed operations in the order of their commits; and every
\* registerAgent that commits leaves one agent more in the store.
C35_NoLostUpdates ==
  [][/\ Store' /= Store => Committing /= 0
     /\ \A p \in Procs :
          (pc[p] = "writing" /\ pc'[p] = "unlock") =>
             /\ \E now \in Times : Store' = Apply(op[p], Store, now).st
             /\ op[p].name = "registerAgent" =>
                   Cardinality(DOMAIN Store'.agents) = Cardinality(DOMAIN Store.agents) + 1
    ]_vars

\* C36: a poll that resolves the wait on agent a to the task variant
\* returns a task that is in_progress with agentId a in the snapshot it
\* read, and a poll for another agent does not return that task.
C36_TaskIsTheAgents ==
  \A a \in AgentIds :
    waitForTask(Store, a).type = "task" =>
      /\ Store.tasks[waitForTask(Store, a).task].status = "in_progress"
      /\ Store.tasks[waitForTask(Store, a).task].agentId = a
      /\ \A b \in AgentIds \ {a} :
           waitForTask(Store, b).type = "task" =>
             waitForTask(Store, b).task /= waitForTask(Store, a).task

\* The values HaltInfo takes.
HaltInfos ==
  {DEFAULT_HALT} \cup {[halted |-> TRUE, reason |-> r] : r \in Reasons}

\* C39: registerAgent, createTask, assignTaskToAgent, updateTaskStatus,
\* completeTask and removeAgent do on a store what they do on the store
\* that differs from it in halt only: they return the same value, write or
\* do not write alike, write the same agents and tasks, and the halt they
\* write is the halt they found.
C39_HaltBlind ==
  [][\A p \in Procs :
       (Entering(p) /\ op'[p].name \in {"registerAgent", "createTask",
                                         "assignTaskToAgent", "updateTaskStatus",
                                         "completeTask", "removeAgent"}) =>
          LET s == Store
          IN \A h \in HaltInfos : \E now \in Times :
               LET r == Apply(op'[p], [s EXCEPT !.halt = h], now)
               IN /\ r.ret = ret'[p]
                  /\ r.write <=> pc'[p] = "writing"
                  /\ r.st.halt = h
                  /\ pc'[p] = "writing" =>
                        /\ r.st.agents = snap'[p].agents
                        /\ r.st.tasks = snap'[p].tasks
                        /\ snap'[p].halt = s.halt
    ]_vars

\* An assignment is about to be written while halt is set: it returned
\* true, and the halt is written as it was found.
C39_Witness ==
  \E p \in Procs :
    /\ pc[p] = "writing" /\ IsAssign(op[p]) /\ ret[p] = "true"
    /\ Store.halt.halted /\ snap[p].halt = Store.halt
    /\ waitForTask(snap[p], op[p].agent).type = "halted"

\* C40: the gate is released on every way out of a mutating operation.  A
\* call that entered the gate holds it; whether it commits, returns
\* without writing or fails in writeState, it goes through the release,
\* and when it has ended the lock is free; so the lock is never held by a
\* process that is not inside its critical section.
C40_GateReleased ==
  /\ [](\A p \in Procs :
          (lock.st = "held" /\ p \in lock.by) => pc[p] \in {"writing", "unlock"})
  /\ [][\A p \in Procs :
          /\ Entering(p) => lock' = [st |-> "held", by |-> {p}]
          /\ (pc[p] = "writing" /\ pc'[p] /= "writing" /\ crashes' = crashes) =>
                pc'[p] = "unlock" /\ lock' = lock
          /\ (pc[p] = "unlock" /\ pc'[p] /= "unlock" /\ crashes' = crashes) =>
                pc'[p] = "idle" /\ lock'.st = "free"
       ]_vars

\* An assignment has ended in an error of writeState: the lock is free,
\* and another process is inside the gate after it.
C40_Witness ==
  \E p, q \in Procs :
    /\ pc[p] = "idle" /\ ret[p] = "EIO" /\ IsAssign(op[p])
    /\ q /= p /\ pc[q] = "writing" /\ lock = [st |-> "held", by |-> {q}]
    /\ crashes = 0

\* C37: a delegate call that ends in an error leaves no task of its own in
\* the store: the tasks are those that were there before the call and
\* those that other calls have created, and none is pending with no agent
\* because of it.
C37_FailedDelegateLeavesNothing ==
  [][\A p \in Procs :
       (handler[p].pc = "assign" /\ handler'[p].pc = "idle" /\ ret'[p] /= "true") =>
          handler[p].task \notin DOMAIN Store'.tasks
    ]_vars

\* C34: with the tool handlers only, and ids that are not repeated, an
\* agent is busy iff its currentTaskId names a task that is in_progress
\* with the agentId of this agent, in every state; and the agentId of a
\* task, once set, is never set again.
C34_ToolsKeepTheLink ==
  /\ [](\A a \in DOMAIN Store.agents :
          Store.agents[a].status = "busy" <=> Linked(Store, a))
  /\ [][\A t \in Staying :
          Store.tasks[t].agentId /= NULL =>
            Store'.tasks[t].agentId = Store.tasks[t].agentId]_vars

\* An agent is busy with a task that carries an update, while a halt is
\* set and another task, once assigned, is completed.
C34_Witness ==
  /\ Store.halt.halted
  /\ \E a \in DOMAIN Store.agents :
       /\ Store.agents[a].status = "busy" /\ Linked(Store, a)
       /\ Store.tasks[Store.agents[a].currentTaskId].updates /= <<>>
  /\ \E t \in DOMAIN Store.tasks :
       Store.tasks[t].status = "completed" /\ Store.tasks[t].agentId /= NULL

\* The store shows agent a busy with task t, which is in_progress.
Delegated(a, t) ==
  /\ a \in DOMAIN Store.agents /\ t \in DOMAIN Store.tasks
  /\ Store.agents[a].status = "busy" /\ Store.agents[a].currentTaskId = t
  /\ Store.tasks[t].status = "in_progress" /\ Store.tasks[t].agentId = a

\* The background agent, enlisted as a, has been given task t by its call.
Holds(a, t) ==
  /\ handler[1].pc \in {"working", "completing", "completed"}
  /\ handler[1].agent = a /\ handler[1].task = t

\* The call of the background agent, registered as a, is blocked in
\* waitForTask(a), or about to be: its registerAgent or its completeTask
\* has committed.
Enlisted(a) ==
  /\ handler[1].agent = a
  /\ \/ handler[1].pc = "blocked"
     \/ handler[1].pc \in {"enlisting", "completed"} /\ pc[1] \in {"unlock", "idle"}

\* C38: a task that delegate has assigned to the agent of a blocked enlist
\* or task_complete call is returned to the agent by that call, unless a
\* halt is triggered.  (The assignment may also still stand in the store
\* when the call has returned another task: an agent enlisted under the
\* same id is then the one whose call polls for it.)
C38_AssignedIsReturned ==
  \A a \in AgentIds, t \in TaskIds :
    (Enlisted(a) /\ Delegated(a, t) /\ ~Holds(a, t)) ~>
       \/ Holds(a, t)
       \/ Store.halt.halted \/ handler[1].pc = "halted"
       \/ Delegated(a, t) /\ ~Enlisted(a)

\* The wait of a task_complete call, which had gone to sleep, has resolved
\* to the task that delegate assigned after the first task was completed.
C38_Witness ==
  /\ handler[1].pc = "blocked"
  /\ wait[1].st = "done" /\ wait[1].slept /\ wait[1].result.type = "task"
  /\ Delegated(wait[1].agent, wait[1].result.task)
  /\ handler[2].pc = "idle" /\ pc[2] = "idle"
  /\ \E t \in DOMAIN Store.tasks :
       Store.tasks[t].status = "completed" /\ Store.tasks[t].agentId = wait[1].agent

=============================================================================
